---- MODULE Spec2Model ----
(***************************************************************************)
(* Model of src/blueproximity-v2.py: BluetoothProximityMonitor.            *)
(*                                                                         *)
(* The main thread runs the scan loop (run / handle_device_proximity);     *)
(* every threading.Timer is a thread of its own that waits for its         *)
(* interval, tests its `finished` event and then calls lock_action or      *)
(* unlock_action.  The GNOME screen saver (GetActive / Lock / SetActive)   *)
(* and the user sitting at the machine are the environment.                *)
(***************************************************************************)
EXTENDS Integers, Sequences, FiniteSets, Bags, TLC

(* ------------------------------ CONFIG -------------------------------- *)

\* CONFIG['devices'], in dictionary (insertion) order
Devices == <<"iPhone", "ULT-WEAR">>

DeviceNames == {Devices[i] : i \in 1..Len(Devices)}

\* the MAC addresses CONFIG['devices'] gives them
ConfiguredDevices == [d \in DeviceNames |->
                        IF d = "iPhone" THEN "78:44:8B:CE:H1:DI" ELSE "00:A4:0ZC:EC:2B:6B"]

lock_distance == -15

lock_timeout == 15

unlock_timeout == 5

(* ------------------------------ bounds -------------------------------- *)

\* seconds that pass in one step of the clock
TickStep == 5

\* timer threads that may be between their `finished` test and their end
MaxInFlight == 2

\* readings hcitool may report: just below, at and above lock_distance
RssiValues == {-16, -15, -5}

\* get_device_rssi returned None: ok = FALSE (the rssi field then stands for no signal)
NoReading == [ok |-> FALSE, rssi |-> -127]

\* what get_device_rssi returns: None or an integer reading
Samples == {NoReading} \cup {[ok |-> TRUE, rssi |-> v] : v \in RssiValues}

(* ------------------------------- state -------------------------------- *)

VARIABLES
    device_is_present,        \* dict: device name -> bool (keys appear at the first reading)
    lock_timers,              \* dict: device name -> threading.Timer
    unlock_timers,            \* dict: device name -> threading.Timer
    screen_locked_by_script,  \* bool
    running,                  \* bool
    config_devices,           \* CONFIG['devices']: device name -> MAC address
    main_pc,                  \* main thread: "start", "scan" (in the loop of run), "rssi" (inside
                              \* get_device_rssi), "set_present" / "set_away" (before line 176,
                              \* with the value it will write), "returned" (run returned) or
                              \* "exited" (sys.exit)
    scan_idx,                 \* index in Devices of the next device of this tick
    threads,                  \* bag of timer threads that passed their `finished` test
    screen,                   \* screen saver: "unlocked", or who engaged the lock: "script" / "user"
    away_for,                 \* history, per device: seconds its flag has been False (capped at
                              \* lock_timeout); -1 in the specifications that keep no durations
    passes,                   \* completed passes of run's loop over all devices, counted up to 1
    time_since_seen,          \* main.py: time.time() - last_seen_time in whole clock steps, capped
    age_over,                 \* main.py: last_seen_time was taken at the very start of a clock step
                              \* (the age is just over time_since_seen) or inside one (it is under)
    is_locked,                \* main.py: bool
    sleep_left,               \* main.py: seconds left of asyncio.sleep(5) in main's loop
    main_at,                  \* main.py, main(): "start" (lines 97-99), "sleep" (line 102), "check"
                              \* (GetActive of line 108), "lock_query" (line 46), "lock_call"
                              \* (line 47), "ended", or "none" when main.py is not the script run
    callback_at,              \* main.py, detection_callback under way: "idle" (none), "connect" /
                              \* "connect_unlock" (get_screensaver_interface of line 75, called
                              \* with an RSSI not above / above UNLOCK_THRESHOLD), "active"
                              \* (GetActive of line 77), "unlock_query" (line 59), "unlock_set"
                              \* (line 62)
    weak_for                  \* main.py, history: seconds since the last advertisement that was
                              \* not below LOCK_THRESHOLD (or since the start), capped

vars == <<device_is_present, lock_timers, unlock_timers, screen_locked_by_script,
          running, config_devices, main_pc, scan_idx, threads, screen, away_for, passes,
          time_since_seen, age_over, is_locked, sleep_left, main_at, callback_at, weak_for>>

\* the state of main.py (a script of its own, run instead of the monitor)
main_py == <<time_since_seen, age_over, is_locked, sleep_left, main_at, callback_at, weak_for>>

\* the state of the monitor of blueproximity-v2.py
monitor == <<device_is_present, lock_timers, unlock_timers, screen_locked_by_script,
             running, config_devices, main_pc, scan_idx, threads, away_for, passes>>

Min(a, b) == IF a < b THEN a ELSE b

Max(a, b) == IF a > b THEN a ELSE b

\* d[k] = v on a dict whose key k may be new
DictSet(d, k, v) == [x \in DOMAIN d \cup {k} |-> IF x = k THEN v ELSE d[x]]

\* d.get(k, default)
DictGet(d, k, default) == IF k \in DOMAIN d THEN d[k] ELSE default

\* any(d.values())
AnyValue(d) == \E k \in DOMAIN d : d[k]

(* --------------------------- threading.Timer -------------------------- *)

\* faulty variant: a timer started with no interval to wait for
NewTimer_Immediate(interval) == [st |-> "armed", rem |-> 0]

\* A Timer object: st is "armed" while the thread waits on `finished`,
\* "cancelled" once cancel() set `finished` during the wait, "fired" once the
\* thread found `finished` unset after the wait.  rem: seconds left to wait.
NewTimer(interval) == [st |-> "armed", rem |-> interval]

\* Timer.cancel(): sets `finished`; only a waiting timer is affected
CancelledTimer(t) == IF t.st = "armed" THEN [st |-> "cancelled", rem |-> 0] ELSE t

\* faulty variant: cancel_timer that cancels whatever is stored, a missing key included:
\* the key then holds a dead timer
cancel_timer_AnyKey(timer_dict, d) == DictSet(timer_dict, d, [st |-> "cancelled", rem |-> 0])

\* faulty variant: handle_device_proximity and start_*_timer without their cancel_timer calls
cancel_timer_Forgotten(timer_dict, d) == timer_dict

\* cancel_timer(timer_type, device_name) on the dict of that type
cancel_timer(timer_dict, d) ==
    IF d \in DOMAIN timer_dict
    THEN [timer_dict EXCEPT ![d] = CancelledTimer(@)]
    ELSE timer_dict

\* The threads of (kind, d) that have passed the `finished` test but not yet
\* entered their function learn nothing from a cancel(): `late` records, until
\* the function is entered, that cancel() returned before.
MarkLate(ths, kind, d) ==
    IF ths = EmptyBag THEN ths
    ELSE BagOfAll(LAMBDA t : IF t.kind = kind /\ t.dev = d /\ t.pc = "call"
                             THEN [t EXCEPT !.late = TRUE] ELSE t, ths)

\* device_name is read by lock_action / unlock_action at their entry only (the log
\* line); past the entry a thread no longer carries it
NoDevice == "-"

NewThread(kind, d) == [kind |-> kind, dev |-> d, pc |-> "call", late |-> FALSE]

(* ------------------------------ __init__ ------------------------------ *)

EmptyDict == [x \in {} |-> TRUE]

\* main.py is not the script that runs
MainPyNotRun ==
    /\ time_since_seen = 0
    /\ age_over = FALSE
    /\ is_locked = FALSE
    /\ sleep_left = 0
    /\ main_at = "none"
    /\ callback_at = "idle"
    /\ weak_for = 0

Init ==
    /\ device_is_present = EmptyDict
    /\ lock_timers = [x \in {} |-> NewTimer(lock_timeout)]
    /\ unlock_timers = [x \in {} |-> NewTimer(unlock_timeout)]
    /\ screen_locked_by_script = FALSE
    /\ running = TRUE
    /\ config_devices = ConfiguredDevices
    /\ main_pc = "scan"
    /\ scan_idx = 1
    /\ threads = EmptyBag
    /\ screen = "unlocked"
    /\ away_for = [d \in DeviceNames |-> -1]
    /\ passes = 0
    /\ MainPyNotRun

(* ---------------------- handle_device_proximity ----------------------- *)

\* faulty variant: the test with > for >=
IsPresent_Strict(rssi) == rssi > lock_distance

\* is_currently_present = rssi >= CONFIG['lock_distance']
IsPresent(rssi) == rssi >= lock_distance

\* last_known_state = self.device_is_present.get(device_name, True)
LastKnown(dip, d) == DictGet(dip, d, TRUE)

\* start_lock_timer / start_unlock_timer: cancel the old timer of the key,
\* then store and start a new one
start_timer(timer_dict, d, interval) ==
    DictSet(cancel_timer(timer_dict, d), d, NewTimer(interval))

\* seconds (capped) for which the flag of d has been False, after it was set to cur
AwayAfterSample(d, cur) ==
    IF away_for[d] < 0 \/ (~cur /\ d \in DOMAIN device_is_present /\ ~device_is_present[d])
    THEN away_for[d] ELSE 0

\* faulty variant: no early return: a missing reading is handled as no signal (away)
Skips_Never(s) == FALSE

\* `if rssi is None: ... return`
Skips(s) == ~s.ok

\* faulty variant: the branch of a device that is back without its
\* cancel_timer('lock', device_name) call (line 168)
timer_calls_NoLockCancel(d, cur, last) ==
    IF cur # last
    THEN IF cur
         THEN /\ UNCHANGED lock_timers
              /\ unlock_timers' = start_timer(unlock_timers, d, unlock_timeout)
              /\ threads' = MarkLate(threads, "unlock", d)
         ELSE /\ unlock_timers' = cancel_timer(unlock_timers, d)
              /\ lock_timers' = start_timer(lock_timers, d, lock_timeout)
              /\ threads' = MarkLate(MarkLate(threads, "unlock", d), "lock", d)
    ELSE UNCHANGED <<lock_timers, unlock_timers, threads>>

\* lines 163-173: `if is_currently_present != last_known_state:` and the timer calls
\* of its two branches
timer_calls(d, cur, last) ==
    IF cur # last
    THEN IF cur
         THEN /\ lock_timers' = cancel_timer(lock_timers, d)
              /\ unlock_timers' = start_timer(unlock_timers, d, unlock_timeout)
              /\ threads' = MarkLate(MarkLate(threads, "lock", d), "unlock", d)
         ELSE /\ unlock_timers' = cancel_timer(unlock_timers, d)
              /\ lock_timers' = start_timer(lock_timers, d, lock_timeout)
              /\ threads' = MarkLate(MarkLate(threads, "unlock", d), "lock", d)
    ELSE UNCHANGED <<lock_timers, unlock_timers, threads>>

\* The main thread moves on in `for device_name, mac_address in CONFIG['devices'].items()`;
\* after the last device it sleeps and starts the next tick.  get_device_rssi blocks
\* for up to its 4 s timeout and the sleep for scan_interval: any time may pass
\* between two observations.
AdvanceScan ==
    /\ scan_idx' = IF scan_idx < Len(Devices) THEN scan_idx + 1 ELSE 1
    /\ passes' = IF scan_idx < Len(Devices) THEN passes ELSE 1

\* handle_device_proximity(device_name, mac_address) from the return of
\* get_device_rssi (s) to the end of line 173.  No lock protects device_is_present
\* or the timer dicts, and the handler writes its log (file and stdout) between
\* the timer calls and line 176: the timer threads run, and time passes, between
\* this step and the write of the flag.  The value for line 176 is kept in main_pc.
handle_device_proximity(d, s) ==
    IF Skips(s)
    THEN /\ AdvanceScan
         /\ main_pc' = "scan"
         /\ UNCHANGED <<lock_timers, unlock_timers, threads>>
    ELSE LET cur == IsPresent(s.rssi)
         IN  /\ timer_calls(d, cur, LastKnown(device_is_present, d))
             /\ main_pc' = IF cur THEN "set_present" ELSE "set_away"
             /\ UNCHANGED <<scan_idx, passes>>

\* one pass of the loop body of run up to line 173: `if not self.running: break`,
\* get_device_rssi, then handle_device_proximity on what it returned
Observe(s) ==
    /\ main_pc = "scan"
    /\ running
    /\ handle_device_proximity(Devices[scan_idx], s)
    /\ UNCHANGED <<device_is_present, away_for, screen_locked_by_script, running,
                   config_devices, main_py, screen>>

\* line 176: self.device_is_present[device_name] = is_currently_present, and the
\* return to the loop of run
proximity_update ==
    /\ main_pc \in {"set_present", "set_away"}
    /\ device_is_present' = DictSet(device_is_present, Devices[scan_idx], main_pc = "set_present")
    /\ away_for' = [away_for EXCEPT ![Devices[scan_idx]] =
                       AwayAfterSample(Devices[scan_idx], main_pc = "set_present")]
    /\ AdvanceScan
    /\ main_pc' = "scan"
    /\ UNCHANGED <<lock_timers, unlock_timers, threads, screen_locked_by_script, running,
                   config_devices, main_py, screen>>

\* The first step again in two, for the runs in which a signal may arrive while the
\* main thread is inside get_device_rssi (subprocess.run blocks for up to 4 s):
\* the loop test passed and hcitool is running ...
BeginObserve ==
    /\ main_pc = "scan"
    /\ running
    /\ main_pc' = "rssi"
    /\ UNCHANGED <<device_is_present, lock_timers, unlock_timers, screen_locked_by_script,
                   running, config_devices, main_py, scan_idx, threads, screen, away_for, passes>>

\* ... get_device_rssi returned s and handle_device_proximity runs up to line 173
EndObserve(s) ==
    /\ main_pc = "rssi"
    /\ handle_device_proximity(Devices[scan_idx], s)
    /\ UNCHANGED <<device_is_present, away_for, screen_locked_by_script, running,
                   config_devices, main_py, screen>>

(* --------------------------- signal_handler --------------------------- *)

\* signal_handler(signum, frame) runs in the main thread wherever that thread is:
\* running = False, cancel() on every stored timer, then sys.exit(0), whose
\* SystemExit unwinds the main thread from the interrupted place (no handler of the
\* program catches it).  The timer threads are not daemon threads: the interpreter
\* waits for those still running before the process ends.

CancelAll(timer_dict) == [d \in DOMAIN timer_dict |-> CancelledTimer(timer_dict[d])]

MarkAllLate(ths) ==
    IF ths = EmptyBag THEN ths ELSE
    BagOfAll(LAMBDA t : IF t.pc = "call" THEN [t EXCEPT !.late = TRUE] ELSE t, ths)

signal_handler ==
    /\ main_pc # "exited"
    /\ running' = FALSE
    /\ lock_timers' = CancelAll(lock_timers)
    /\ unlock_timers' = CancelAll(unlock_timers)
    /\ threads' = MarkAllLate(threads)
    /\ main_pc' = "exited"
    /\ UNCHANGED <<device_is_present, screen_locked_by_script, config_devices, main_py, scan_idx,
                   screen, away_for, passes>>

(* ------------------------------- clock -------------------------------- *)

TickTimer(t) == IF t.st = "armed" THEN [t EXCEPT !.rem = Max(0, @ - TickStep)] ELSE t

Tick ==
    /\ lock_timers' = [d \in DOMAIN lock_timers |-> TickTimer(lock_timers[d])]
    /\ unlock_timers' = [d \in DOMAIN unlock_timers |-> TickTimer(unlock_timers[d])]
    /\ away_for' = [d \in DeviceNames |->
                      IF away_for[d] >= 0 /\ d \in DOMAIN device_is_present /\ ~device_is_present[d]
                      THEN Min(lock_timeout, away_for[d] + TickStep)
                      ELSE away_for[d]]
    /\ UNCHANGED <<device_is_present, screen_locked_by_script, running, config_devices, main_py, main_pc, scan_idx,
                   threads, screen, passes>>

(* ------------------------- the screen saver --------------------------- *)

\* outcomes of one call over the session bus: it is answered (TRUE) or raises (FALSE)
BusOutcomes == BOOLEAN

\* is_screen_locked(): GetActive over the bus; a call that raises counts as "not locked"
is_screen_locked(ok) == ok /\ screen # "unlocked"

\* org.gnome.ScreenSaver.Lock: engages the lock unless one is engaged already
AfterLock(scr) == IF scr = "unlocked" THEN "script" ELSE scr

\* org.gnome.ScreenSaver.SetActive(False)
AfterSetActiveFalse(scr) == "unlocked"

(* --------------------------- timer threads ---------------------------- *)

Remove(ths, t) == ths (-) SetToBag({t})

Replace(ths, t, u) == (ths (-) SetToBag({t})) (+) SetToBag({u})

TimerDict(kind) == IF kind = "lock" THEN lock_timers ELSE unlock_timers

FiredTimer(t) == [st |-> "fired", rem |-> 0]

\* Timer.run(): finished.wait(interval) timed out and finished.is_set() was False;
\* the thread is now committed to calling its function
TimerExpire(kind, d) ==
    /\ d \in DOMAIN TimerDict(kind)
    /\ TimerDict(kind)[d].st = "armed"
    /\ TimerDict(kind)[d].rem = 0
    /\ BagCardinality(threads) < MaxInFlight
    /\ threads' = threads (+) SetToBag({NewThread(kind, d)})
    /\ IF kind = "lock"
       THEN /\ lock_timers' = [lock_timers EXCEPT ![d] = FiredTimer(@)]
            /\ UNCHANGED unlock_timers
       ELSE /\ unlock_timers' = [unlock_timers EXCEPT ![d] = FiredTimer(@)]
            /\ UNCHANGED lock_timers
    /\ UNCHANGED <<device_is_present, screen_locked_by_script, running, config_devices, main_py, main_pc, scan_idx,
                   screen, away_for, passes>>

\* faulty variant: lock_action locking as soon as some device is away: not all(...)
LockCondition_NotAll(dip) == \E k \in DOMAIN dip : ~dip[k]

\* lock_action's test: not any(self.device_is_present.values())
LockCondition(dip) == ~AnyValue(dip)

\* unlock_action's test: any(self.device_is_present.values())
UnlockCondition(dip) == AnyValue(dip)

\* what the thread t does after its test: go on to lock_screen / unlock_screen, or end
ActionPasses(t) ==
    \/ t.kind = "lock" /\ LockCondition(device_is_present)
    \/ t.kind = "unlock" /\ UnlockCondition(device_is_present)

\* lock_action / unlock_action is entered and evaluates its test
ActionCall(t) ==
    /\ t.pc = "call"
    /\ IF ActionPasses(t)
       THEN threads' = Replace(threads, t, [t EXCEPT !.pc = "query", !.dev = NoDevice, !.late = FALSE])
       ELSE threads' = Remove(threads, t)
    /\ UNCHANGED <<device_is_present, lock_timers, unlock_timers, screen_locked_by_script,
                   running, config_devices, main_py, main_pc, scan_idx, screen, away_for, passes>>

\* lock_screen: `if self.is_screen_locked(): return`
LockQuery(t, ok) ==
    /\ t.kind = "lock"
    /\ t.pc = "query"
    /\ IF is_screen_locked(ok)
       THEN threads' = Remove(threads, t)
       ELSE threads' = Replace(threads, t, [t EXCEPT !.pc = "lock"])
    /\ UNCHANGED <<device_is_present, lock_timers, unlock_timers, screen_locked_by_script,
                   running, config_devices, main_py, main_pc, scan_idx, screen, away_for, passes>>

\* lock_screen: screensaver.Lock(); an exception ends the call
LockCallLock(t, ok) ==
    /\ t.kind = "lock"
    /\ t.pc = "lock"
    /\ IF ok
       THEN /\ screen' = AfterLock(screen)
            /\ threads' = Replace(threads, t, [t EXCEPT !.pc = "set"])
       ELSE /\ screen' = screen
            /\ threads' = Remove(threads, t)
    /\ UNCHANGED <<device_is_present, lock_timers, unlock_timers, screen_locked_by_script,
                   running, config_devices, main_py, main_pc, scan_idx, away_for, passes>>

\* lock_screen: self.screen_locked_by_script = True
LockSetFlag(t) ==
    /\ t.kind = "lock"
    /\ t.pc = "set"
    /\ screen_locked_by_script' = TRUE
    /\ threads' = Remove(threads, t)
    /\ UNCHANGED <<device_is_present, lock_timers, unlock_timers,
                   running, config_devices, main_py, main_pc, scan_idx, screen, away_for, passes>>

\* unlock_screen: `not self.is_screen_locked()` of the guard
UnlockQuery(t, ok) ==
    /\ t.kind = "unlock"
    /\ t.pc = "query"
    /\ IF is_screen_locked(ok)
       THEN threads' = Replace(threads, t, [t EXCEPT !.pc = "flag"])
       ELSE threads' = Remove(threads, t)
    /\ UNCHANGED <<device_is_present, lock_timers, unlock_timers, screen_locked_by_script,
                   running, config_devices, main_py, main_pc, scan_idx, screen, away_for, passes>>

\* faulty variant: unlock_screen without the test of screen_locked_by_script
UnlockGuardFlag_NoTest(flag) == TRUE

\* unlock_screen: `not self.screen_locked_by_script` of the guard; TRUE lets the call go on
UnlockGuardFlag(flag) == flag

UnlockReadFlag(t) ==
    /\ t.kind = "unlock"
    /\ t.pc = "flag"
    /\ IF UnlockGuardFlag(screen_locked_by_script)
       THEN threads' = Replace(threads, t, [t EXCEPT !.pc = "setactive"])
       ELSE threads' = Remove(threads, t)
    /\ UNCHANGED <<device_is_present, lock_timers, unlock_timers, screen_locked_by_script,
                   running, config_devices, main_py, main_pc, scan_idx, screen, away_for, passes>>

\* unlock_screen: screensaver.SetActive(False); an exception ends the call
UnlockCallSetActive(t, ok) ==
    /\ t.kind = "unlock"
    /\ t.pc = "setactive"
    /\ IF ok
       THEN /\ screen' = AfterSetActiveFalse(screen)
            /\ threads' = Replace(threads, t, [t EXCEPT !.pc = "clear"])
       ELSE /\ screen' = screen
            /\ threads' = Remove(threads, t)
    /\ UNCHANGED <<device_is_present, lock_timers, unlock_timers, screen_locked_by_script,
                   running, config_devices, main_py, main_pc, scan_idx, away_for, passes>>

\* unlock_screen: self.screen_locked_by_script = False
UnlockClearFlag(t) ==
    /\ t.kind = "unlock"
    /\ t.pc = "clear"
    /\ screen_locked_by_script' = FALSE
    /\ threads' = Remove(threads, t)
    /\ UNCHANGED <<device_is_present, lock_timers, unlock_timers,
                   running, config_devices, main_py, main_pc, scan_idx, screen, away_for, passes>>

(* ---------------------------- environment ----------------------------- *)

\* the user locks the screen by hand
UserLock ==
    /\ screen = "unlocked"
    /\ screen' = "user"
    /\ UNCHANGED <<device_is_present, lock_timers, unlock_timers, screen_locked_by_script,
                   running, config_devices, main_py, main_pc, scan_idx, threads, away_for, passes>>

\* the user unlocks the screen with the password
UserUnlock ==
    /\ screen # "unlocked"
    /\ screen' = "unlocked"
    /\ UNCHANGED <<device_is_present, lock_timers, unlock_timers, screen_locked_by_script,
                   running, config_devices, main_py, main_pc, scan_idx, threads, away_for, passes>>

(* --------------------------- specification ---------------------------- *)

\* the steps of the timer threads, the calls over the bus ending as `outs` allows
ThreadSteps(outs) ==
    \/ \E t \in BagToSet(threads) : ActionCall(t)
    \/ \E t \in BagToSet(threads), ok \in outs : LockQuery(t, ok)
    \/ \E t \in BagToSet(threads), ok \in outs : LockCallLock(t, ok)
    \/ \E t \in BagToSet(threads) : LockSetFlag(t)
    \/ \E t \in BagToSet(threads), ok \in outs : UnlockQuery(t, ok)
    \/ \E t \in BagToSet(threads) : UnlockReadFlag(t)
    \/ \E t \in BagToSet(threads), ok \in outs : UnlockCallSetActive(t, ok)
    \/ \E t \in BagToSet(threads) : UnlockClearFlag(t)

\* the monitor while it runs: scan loop, clock, timers, timer threads, user
Next ==
    \/ \E s \in Samples : Observe(s)
    \/ proximity_update
    \/ Tick
    \/ \E k \in {"lock", "unlock"}, d \in DeviceNames : TimerExpire(k, d)
    \/ ThreadSteps(BusOutcomes)
    \/ UserLock
    \/ UserUnlock

Spec == Init /\ [][Next]_vars

\* The same with a session bus that answers every call and a user who locks and
\* unlocks only while no timer thread is between its test and its end (the user
\* takes seconds, a firing milliseconds).
NextQuiet ==
    \/ \E s \in Samples : Observe(s)
    \/ proximity_update
    \/ Tick
    \/ \E k \in {"lock", "unlock"}, d \in DeviceNames : TimerExpire(k, d)
    \/ ThreadSteps({TRUE})
    \/ (threads = EmptyBag /\ UserLock)
    \/ (threads = EmptyBag /\ UserUnlock)

SpecQuiet == Init /\ [][NextQuiet]_vars

\* The monitor of Next with the durations of absence kept: away_for starts at 0
\* and counts, per device, the time its flag has been False.
InitAway ==
    /\ device_is_present = EmptyDict
    /\ lock_timers = [x \in {} |-> NewTimer(lock_timeout)]
    /\ unlock_timers = [x \in {} |-> NewTimer(unlock_timeout)]
    /\ screen_locked_by_script = FALSE
    /\ running = TRUE
    /\ config_devices = ConfiguredDevices
    /\ main_pc = "scan"
    /\ scan_idx = 1
    /\ threads = EmptyBag
    /\ screen = "unlocked"
    /\ away_for = [d \in DeviceNames |-> 0]
    /\ passes = 0
    /\ MainPyNotRun

SpecAway == InitAway /\ [][Next]_vars

\* no timer whose wait has run down is still waiting
NoTimerDue ==
    /\ \A d \in DOMAIN lock_timers :
          ~(lock_timers[d].st = "armed" /\ lock_timers[d].rem = 0)
    /\ \A d \in DOMAIN unlock_timers :
          ~(unlock_timers[d].st = "armed" /\ unlock_timers[d].rem = 0)

\* the longest absence told apart when the clock is on time: one clock step
\* more than lock_timeout
AwayCap == lock_timeout + TickStep

\* The clock on time: a step of it falls neither between the timer calls of the
\* handler and line 176 (the log call of line 188 takes well under a millisecond)
\* nor behind the end of a timer's wait (Timer.run: self.finished.wait(interval)
\* returns when the interval is over, and the thread tests `finished` then).
TickOnTime ==
    /\ main_pc = "scan"
    /\ NoTimerDue
    /\ lock_timers' = [d \in DOMAIN lock_timers |-> TickTimer(lock_timers[d])]
    /\ unlock_timers' = [d \in DOMAIN unlock_timers |-> TickTimer(unlock_timers[d])]
    /\ away_for' = [d \in DeviceNames |->
                      IF away_for[d] >= 0 /\ d \in DOMAIN device_is_present /\ ~device_is_present[d]
                      THEN Min(AwayCap, away_for[d] + TickStep)
                      ELSE away_for[d]]
    /\ UNCHANGED <<device_is_present, screen_locked_by_script, running, config_devices, main_py, main_pc, scan_idx,
                   threads, screen, passes>>

\* The monitor of Next with the clock on time, for the statements that name
\* the moment of a firing; the durations of absence are kept.
NextTimed ==
    \/ \E s \in Samples : Observe(s)
    \/ proximity_update
    \/ TickOnTime
    \/ \E k \in {"lock", "unlock"}, d \in DeviceNames : TimerExpire(k, d)
    \/ ThreadSteps(BusOutcomes)
    \/ UserLock
    \/ UserUnlock

SpecTimed == InitAway /\ [][NextTimed]_vars

\* The monitor with SIGINT / SIGTERM: the bus answers every call, nobody touches
\* the screen by hand, and a signal may arrive at any point of the main thread.
NextSignal ==
    \/ BeginObserve
    \/ \E s \in Samples : EndObserve(s)
    \/ proximity_update
    \/ signal_handler
    \/ Tick
    \/ \E k \in {"lock", "unlock"}, d \in DeviceNames : TimerExpire(k, d)
    \/ ThreadSteps({TRUE})

SpecSignal == Init /\ [][NextSignal]_vars

(* ------------------------- what must happen -------------------------- *)

\* The clock moves while no timer thread is between its `finished` test and its
\* end and the main thread is not between its timer calls and line 176: a firing
\* and the handler's statements take milliseconds, a step of the clock seconds.
TickBetweenFirings == threads = EmptyBag /\ main_pc = "scan" /\ Tick

\* The monitor with a bus that answers every call at once and a user who may
\* unlock the screen with the password between two firings.
NextLive ==
    \/ \E s \in Samples : Observe(s)
    \/ proximity_update
    \/ TickBetweenFirings
    \/ \E k \in {"lock", "unlock"}, d \in DeviceNames : TimerExpire(k, d)
    \/ ThreadSteps({TRUE})
    \/ (threads = EmptyBag /\ UserUnlock)

\* What the scheduling gives: `while self.running` keeps scanning (running is never
\* cleared without a signal), time passes again and again between two passes of
\* the loop (time.sleep(scan_interval), line 227; the step is enabled only while
\* the main thread is outside the handler, hence strong fairness), a timer left
\* waiting ends its wait (the
\* threads in flight, which MaxInFlight counts, never hold it back for ever), and
\* every started timer thread gets to run each statement of its function (no
\* thread is held back for ever by the steps of the others).  The user is under
\* no obligation.
Fairness ==
    /\ WF_vars(\E s \in Samples : Observe(s))
    /\ WF_vars(proximity_update)
    /\ SF_vars(TickBetweenFirings)
    /\ \A k \in {"lock", "unlock"}, d \in DeviceNames :
          /\ SF_vars(TimerExpire(k, d))
          /\ WF_vars(\E t \in BagToSet(threads) : t.kind = k /\ t.dev = d /\ ActionCall(t))
    /\ WF_vars(\E t \in BagToSet(threads) : LockQuery(t, TRUE))
    /\ WF_vars(\E t \in BagToSet(threads) : LockCallLock(t, TRUE))
    /\ WF_vars(\E t \in BagToSet(threads) : LockSetFlag(t))
    /\ WF_vars(\E t \in BagToSet(threads) : UnlockQuery(t, TRUE))
    /\ WF_vars(\E t \in BagToSet(threads) : UnlockReadFlag(t))
    /\ WF_vars(\E t \in BagToSet(threads) : UnlockCallSetActive(t, TRUE))
    /\ WF_vars(\E t \in BagToSet(threads) : UnlockClearFlag(t))

SpecLive == Init /\ [][NextLive]_vars /\ Fairness

(* ------------------------------ startup ------------------------------- *)

\* the addresses validate_configuration takes for placeholders
Placeholders == {"XX:XX:XX:XX:XX:XX", "YY:YY:YY:YY:YY:YY"}

\* CONFIG['devices'] as the user may have left or edited it: empty, the two names
\* with placeholders only, the mapping of the file, and that mapping with one
\* address still a placeholder
DeviceMappings ==
    {[d \in {} |-> "XX:XX:XX:XX:XX:XX"]}
       \cup [DeviceNames -> Placeholders]
       \cup {ConfiguredDevices, [ConfiguredDevices EXCEPT !["ULT-WEAR"] = "YY:YY:YY:YY:YY:YY"]}

\* faulty variant: a validation that rejects the empty mapping only
validate_configuration_EmptyOnly(devs) == DOMAIN devs # {}

\* validate_configuration(): False if `not CONFIG['devices'] or all(mac in [...])`
validate_configuration(devs) ==
    ~(DOMAIN devs = {} \/ \A k \in DOMAIN devs : devs[k] \in Placeholders)

\* the monitor constructed, run() not yet called
InitStartup ==
    /\ device_is_present = EmptyDict
    /\ lock_timers = [x \in {} |-> NewTimer(lock_timeout)]
    /\ unlock_timers = [x \in {} |-> NewTimer(unlock_timeout)]
    /\ screen_locked_by_script = FALSE
    /\ running = TRUE
    /\ config_devices \in DeviceMappings
    /\ main_pc = "start"
    /\ scan_idx = 1
    /\ threads = EmptyBag
    /\ screen = "unlocked"
    /\ away_for = [d \in DeviceNames |-> -1]
    /\ passes = 0
    /\ MainPyNotRun

\* run(): `if not self.validate_configuration(): return`, else on to the loop
run_start ==
    /\ main_pc = "start"
    /\ main_pc' = IF validate_configuration(config_devices) THEN "scan" ELSE "returned"
    /\ UNCHANGED <<device_is_present, lock_timers, unlock_timers, screen_locked_by_script,
                   running, config_devices, main_py, scan_idx, threads, screen, away_for, passes>>

\* the monitor from the call of run(), with a bus that answers every call
NextStartup ==
    \/ run_start
    \/ \E s \in Samples : Observe(s)
    \/ proximity_update
    \/ Tick
    \/ \E k \in {"lock", "unlock"}, d \in DeviceNames : TimerExpire(k, d)
    \/ ThreadSteps({TRUE})

SpecStartup == InitStartup /\ [][NextStartup]_vars

(* ----------------------- custom-blueproximity.py ---------------------- *)

\* The same monitor class with one device and a handler that differs in three
\* places: no early return on a missing reading, the last known state defaults to
\* the current one, and lock_distance is -30.  Timers, lock_action,
\* unlock_action, lock_screen and unlock_screen are those of blueproximity-v2.py,
\* statement for statement.

\* CONFIG['devices'] of custom-blueproximity.py
CustomDevices == <<"iPhone">>

CustomConfiguredDevices == [d \in {"iPhone"} |-> "78:02:8B:CE:F6:DF"]

custom_lock_distance == -30

\* readings hcitool may report: just below, at and above custom_lock_distance
CustomRssiValues == {-31, -30, -5}

CustomSamples == {NoReading} \cup {[ok |-> TRUE, rssi |-> v] : v \in CustomRssiValues}

\* is_currently_present = rssi is not None and rssi >= CONFIG['lock_distance']
custom_IsPresent(s) == s.ok /\ s.rssi >= custom_lock_distance

\* last_known_state = self.device_is_present.get(device_name, is_currently_present)
custom_LastKnown(dip, d, cur) == DictGet(dip, d, cur)

InitCustom ==
    /\ device_is_present = EmptyDict
    /\ lock_timers = [x \in {} |-> NewTimer(lock_timeout)]
    /\ unlock_timers = [x \in {} |-> NewTimer(unlock_timeout)]
    /\ screen_locked_by_script = FALSE
    /\ running = TRUE
    /\ config_devices = CustomConfiguredDevices
    /\ main_pc = "scan"
    /\ scan_idx = 1
    /\ threads = EmptyBag
    /\ screen = "unlocked"
    /\ away_for = [d \in DeviceNames |-> -1]
    /\ passes = 0
    /\ MainPyNotRun

\* handle_device_proximity of custom-blueproximity.py from the return of
\* get_device_rssi (s) to the end of line 151; the value for line 154 is kept in main_pc
custom_handle_device_proximity(d, s) ==
    LET cur == custom_IsPresent(s)
    IN  /\ timer_calls(d, cur, custom_LastKnown(device_is_present, d, cur))
        /\ main_pc' = IF cur THEN "set_present" ELSE "set_away"

\* one pass of the loop body of run up to line 151
custom_Observe(s) ==
    /\ main_pc = "scan"
    /\ running
    /\ custom_handle_device_proximity(CustomDevices[scan_idx], s)
    /\ UNCHANGED <<device_is_present, away_for, screen_locked_by_script, running,
                   config_devices, main_py, screen, scan_idx, passes>>

\* line 154: self.device_is_present[device_name] = is_currently_present; the loop
\* over the one device is then at its end
custom_proximity_update ==
    /\ main_pc \in {"set_present", "set_away"}
    /\ device_is_present' = DictSet(device_is_present, CustomDevices[scan_idx], main_pc = "set_present")
    /\ away_for' = [away_for EXCEPT ![CustomDevices[scan_idx]] =
                       AwayAfterSample(CustomDevices[scan_idx], main_pc = "set_present")]
    /\ scan_idx' = IF scan_idx < Len(CustomDevices) THEN scan_idx + 1 ELSE 1
    /\ passes' = IF scan_idx < Len(CustomDevices) THEN passes ELSE 1
    /\ main_pc' = "scan"
    /\ UNCHANGED <<lock_timers, unlock_timers, threads, screen_locked_by_script, running,
                   config_devices, main_py, screen>>

\* custom-blueproximity.py while it runs, with a bus that answers every call and a
\* user who may unlock the screen
NextCustom ==
    \/ \E s \in CustomSamples : custom_Observe(s)
    \/ custom_proximity_update
    \/ Tick
    \/ \E k \in {"lock", "unlock"} : TimerExpire(k, CustomDevices[1])
    \/ ThreadSteps({TRUE})
    \/ UserUnlock

SpecCustom == InitCustom /\ [][NextCustom]_vars

(* ------------------------------ main.py ------------------------------ *)

LOCK_THRESHOLD == -70

UNLOCK_THRESHOLD == -60

AWAY_TIMEOUT == 15

\* `await asyncio.sleep(5)` of main's loop
CheckInterval == 5

\* the longest time the model tells apart
AgeCap == AWAY_TIMEOUT + 2 * TickStep

\* RSSI of the advertisements BleakScanner may report for DEVICE_ADDRESS:
\* below LOCK_THRESHOLD, at it, at UNLOCK_THRESHOLD and above it
Advertisements == {-71, -70, -60, -59}

\* main() after line 93: last_seen_time = time.time(), taken before the first
\* sleep, so that the age at a check is just over the sleeps that have ended;
\* the scanner is being started; nobody has locked the screen
InitMainPy ==
    /\ device_is_present = EmptyDict
    /\ lock_timers = [x \in {} |-> NewTimer(lock_timeout)]
    /\ unlock_timers = [x \in {} |-> NewTimer(unlock_timeout)]
    /\ screen_locked_by_script = FALSE
    /\ running = TRUE
    /\ config_devices = ConfiguredDevices
    /\ main_pc = "start"
    /\ scan_idx = 1
    /\ threads = EmptyBag
    /\ screen = "unlocked"
    /\ away_for = [d \in DeviceNames |-> -1]
    /\ passes = 0
    /\ time_since_seen = 0
    /\ age_over = TRUE
    /\ is_locked = FALSE
    /\ sleep_left = 0
    /\ main_at = "start"
    /\ callback_at = "idle"
    /\ weak_for = 0

\* `if time_since_seen > AWAY_TIMEOUT`, the age being just over `age` (over) or
\* between the clock step before `age` and `age`
IsAway(age, over) == age > AWAY_TIMEOUT \/ (age = AWAY_TIMEOUT /\ over)

\* the main coroutine goes (back) to `await asyncio.sleep(5)`
ToSleep ==
    /\ main_at' = "sleep"
    /\ sleep_left' = CheckInterval

\* lines 97-99: scanner.start() has returned and main calls
\* get_screensaver_interface(), which ends the program with sys.exit(1) when
\* SessionBus() or get_object raises
main_start(ok) ==
    /\ main_at = "start"
    /\ callback_at = "idle"
    /\ IF ok THEN ToSleep ELSE (main_at' = "ended" /\ UNCHANGED sleep_left)
    /\ UNCHANGED <<time_since_seen, age_over, is_locked, callback_at, weak_for, screen, monitor>>

\* detection_callback(device, advertisement_data) for an advertisement of
\* DEVICE_ADDRESS, lines 71-73: the address test, the log line and last_seen_time =
\* time.time().  The callback runs on the event loop while main awaits (lines 97,
\* 102), at any moment of the clock step (over).  It goes on to the blocking
\* get_screensaver_interface() of line 75, and the RSSI it was called with decides
\* at line 76 what follows that call.
detection_callback(rssi, over) ==
    /\ main_at \in {"start", "sleep"}
    /\ callback_at = "idle"
    /\ time_since_seen' = 0
    /\ age_over' = over
    /\ weak_for' = IF rssi < LOCK_THRESHOLD THEN weak_for ELSE 0
    /\ callback_at' = IF rssi > UNLOCK_THRESHOLD THEN "connect_unlock" ELSE "connect"
    /\ UNCHANGED <<is_locked, sleep_left, main_at, screen, monitor>>

\* lines 75-77: get_screensaver_interface() returns, or ends the program with
\* sys.exit(1) when the bus cannot be reached (~ok); then `if
\* advertisement_data.rssi > UNLOCK_THRESHOLD` and the is_locked half of `if
\* is_locked or screensaver.GetActive()`.  The call blocks the event loop: main
\* stays in its await and time passes for as long as the bus takes.
callback_get_screensaver_interface(ok) ==
    /\ callback_at \in {"connect", "connect_unlock"}
    /\ IF ~ok
       THEN /\ main_at' = "ended"
            /\ callback_at' = "idle"
       ELSE /\ UNCHANGED main_at
            /\ callback_at' = IF callback_at = "connect_unlock"
                              THEN IF is_locked THEN "unlock_query" ELSE "active"
                              ELSE "idle"
    /\ UNCHANGED <<time_since_seen, age_over, is_locked, sleep_left, weak_for, screen, monitor>>

\* line 77: screensaver.GetActive() of `is_locked or screensaver.GetActive()`; a
\* DBusException is not caught and leaves the callback
callback_GetActive(ok) ==
    /\ callback_at = "active"
    /\ callback_at' = IF ok /\ screen # "unlocked" THEN "unlock_query" ELSE "idle"
    /\ UNCHANGED <<time_since_seen, age_over, is_locked, sleep_left, main_at, weak_for,
                   screen, monitor>>

\* unlock_screen, line 59: `if interface.GetActive()`; a DBusException is caught
\* at line 65
unlock_screen_GetActive(ok) ==
    /\ callback_at = "unlock_query"
    /\ callback_at' = IF ok /\ screen # "unlocked" THEN "unlock_set" ELSE "idle"
    /\ UNCHANGED <<time_since_seen, age_over, is_locked, sleep_left, main_at, weak_for,
                   screen, monitor>>

\* unlock_screen, lines 62-63: interface.SetActive(False); is_locked = False; a
\* DBusException is caught at line 65 and is_locked stays
unlock_screen_SetActive(ok) ==
    /\ callback_at = "unlock_set"
    /\ callback_at' = "idle"
    /\ IF ok
       THEN /\ screen' = AfterSetActiveFalse(screen)
            /\ is_locked' = FALSE
       ELSE UNCHANGED <<screen, is_locked>>
    /\ UNCHANGED <<time_since_seen, age_over, sleep_left, main_at, weak_for, monitor>>

\* main's loop after the sleep, lines 104-108 up to the test of is_locked
PeriodicCheck ==
    /\ main_at = "sleep"
    /\ callback_at = "idle"
    /\ sleep_left = 0
    /\ IF IsAway(time_since_seen, age_over) /\ ~is_locked
       THEN /\ main_at' = "check"
            /\ UNCHANGED sleep_left
       ELSE ToSleep
    /\ UNCHANGED <<time_since_seen, age_over, is_locked, callback_at, weak_for, screen, monitor>>

\* line 108: screensaver.GetActive() of `not is_locked and not
\* screensaver.GetActive()`; a DBusException is not caught and ends main()
check_GetActive(ok) ==
    /\ main_at = "check"
    /\ IF ~ok
       THEN /\ main_at' = "ended"
            /\ UNCHANGED sleep_left
       ELSE IF screen = "unlocked"
            THEN /\ main_at' = "lock_query"
                 /\ UNCHANGED sleep_left
            ELSE ToSleep
    /\ UNCHANGED <<time_since_seen, age_over, is_locked, callback_at, weak_for, screen, monitor>>

\* lock_screen, line 46: `if not interface.GetActive()`; a DBusException is
\* caught at line 50
lock_screen_GetActive(ok) ==
    /\ main_at = "lock_query"
    /\ IF ok /\ screen = "unlocked"
       THEN /\ main_at' = "lock_call"
            /\ UNCHANGED sleep_left
       ELSE ToSleep
    /\ UNCHANGED <<time_since_seen, age_over, is_locked, callback_at, weak_for, screen, monitor>>

\* lock_screen, lines 47-48: interface.Lock(); is_locked = True; a DBusException
\* is caught at line 50 and is_locked stays
lock_screen_Lock(ok) ==
    /\ main_at = "lock_call"
    /\ ToSleep
    /\ IF ok
       THEN /\ screen' = AfterLock(screen)
            /\ is_locked' = TRUE
       ELSE UNCHANGED <<screen, is_locked>>
    /\ UNCHANGED <<time_since_seen, age_over, callback_at, weak_for, monitor>>

\* a clock step passes: of main's sleep, or while main or the callback waits for
\* the bus (or for scanner.start()); a sleep that is over is followed by the
\* check unless a callback holds the event loop
MainPyTick ==
    /\ main_at \in {"start", "sleep", "check", "lock_query", "lock_call"}
    /\ (main_at = "sleep" /\ callback_at = "idle") => sleep_left > 0
    /\ sleep_left' = IF main_at = "sleep" THEN Max(0, sleep_left - TickStep) ELSE sleep_left
    /\ time_since_seen' = Min(AgeCap, time_since_seen + TickStep)
    /\ weak_for' = Min(AgeCap, weak_for + TickStep)
    /\ UNCHANGED <<age_over, is_locked, main_at, callback_at, screen, monitor>>

\* main.py while it runs: each bus call is answered or raises, and the user may
\* lock and unlock the screen between any two of them
NextMainPy ==
    \/ \E ok \in BusOutcomes : main_start(ok)
    \/ \E rssi \in Advertisements, over \in BOOLEAN : detection_callback(rssi, over)
    \/ \E ok \in BusOutcomes : callback_get_screensaver_interface(ok)
    \/ \E ok \in BusOutcomes : callback_GetActive(ok)
    \/ \E ok \in BusOutcomes : unlock_screen_GetActive(ok)
    \/ \E ok \in BusOutcomes : unlock_screen_SetActive(ok)
    \/ PeriodicCheck
    \/ \E ok \in BusOutcomes : check_GetActive(ok)
    \/ \E ok \in BusOutcomes : lock_screen_GetActive(ok)
    \/ \E ok \in BusOutcomes : lock_screen_Lock(ok)
    \/ MainPyTick
    \/ UserLock
    \/ UserUnlock

SpecMainPy == InitMainPy /\ [][NextMainPy]_vars

(* ------------------------------ claims -------------------------------- *)

\* the step moves the timer thread t on to the place pc2 of its function
Moved(t, pc2) ==
    /\ t.pc # pc2
    /\ threads' = Replace(threads, t, [kind |-> t.kind, dev |-> NoDevice, pc |-> pc2, late |-> FALSE])

\* the step ends the timer thread t
Ended(t) == threads' = Remove(threads, t)

\* every device of CONFIG['devices'] has a flag and it is False
AllFlaggedAbsent ==
    \A d \in DeviceNames : d \in DOMAIN device_is_present /\ ~device_is_present[d]

\* no recorded flag is True
NoneFlaggedPresent == \A d \in DOMAIN device_is_present : ~device_is_present[d]

\* t is a timer thread about to evaluate the test of lock_action / unlock_action
Firing(t, kind) == t.kind = kind /\ t.pc = "call"

\* C1 as claimed: a lock firing goes on to lock_screen only if every device of
\* CONFIG['devices'] is flagged absent at the time of the test.  (Stated for the
\* firings after the first pass over all devices, when each device has been
\* asked for a reading at least once, and made while the main thread is not
\* inside handle_device_proximity.)
C1_AsClaimed ==
    [][\A t \in BagToSet(threads) :
          (passes = 1 /\ main_pc = "scan" /\ Firing(t, "lock") /\ Moved(t, "query"))
             => AllFlaggedAbsent]_vars

\* C1, what the code does guarantee: a lock firing goes on to lock_screen only if no recorded flag is
\* True at the time of the test (a device without a reading so far has no flag
\* and does not count); if a recorded flag is True the firing ends and changes nothing.
C1_LockOnlyIfNoFlagPresent ==
    [][\A t \in BagToSet(threads) :
          /\ (Firing(t, "lock") /\ Moved(t, "query")) => NoneFlaggedPresent
          /\ (Firing(t, "lock") /\ Ended(t))
              => /\ ~NoneFlaggedPresent
                 /\ UNCHANGED <<device_is_present, lock_timers, unlock_timers,
                                screen_locked_by_script, screen>>]_vars

\* C1, the failing case reached: Lock has been called while a configured device
\* has no flag
C1_Witness ==
    /\ passes = 1
    /\ DOMAIN device_is_present # DeviceNames
    /\ NoneFlaggedPresent
    /\ \E t \in BagToSet(threads) : t.kind = "lock" /\ t.pc = "set"

\* t is a timer thread of the given kind at the place pc of its function
At(t, kind, pc) == t.kind = kind /\ t.pc = pc

\* what a firing that ends without a call leaves alone
FiringChangesNothing ==
    UNCHANGED <<device_is_present, lock_timers, unlock_timers, screen_locked_by_script, screen>>

\* C2: an unlock firing gets to the SetActive(False) call if and only if its three
\* tests succeed, each when the firing makes it: some recorded flag is True,
\* GetActive answers "locked", screen_locked_by_script is True; a firing with a
\* failed test ends there and changes nothing.
C2_UnlockIffPresentLockedByScript ==
    [][\A t \in BagToSet(threads) :
          /\ (Firing(t, "unlock") /\ Moved(t, "query")) => ~NoneFlaggedPresent
          /\ (Firing(t, "unlock") /\ Ended(t)) => (NoneFlaggedPresent /\ FiringChangesNothing)
          /\ \A ok \in BusOutcomes :
                UnlockQuery(t, ok) =>
                   /\ Moved(t, "flag") <=> (ok /\ screen # "unlocked")
                   /\ Ended(t) <=> ~(ok /\ screen # "unlocked")
          /\ (At(t, "unlock", "query") /\ Ended(t)) => FiringChangesNothing
          /\ (At(t, "unlock", "flag") /\ Moved(t, "setactive")) => screen_locked_by_script
          /\ (At(t, "unlock", "flag") /\ Ended(t))
                => (~screen_locked_by_script /\ FiringChangesNothing)
          /\ (t.kind = "unlock" /\ Moved(t, "setactive")) => t.pc = "flag"
          /\ (t.kind = "unlock" /\ Moved(t, "clear")) => t.pc = "setactive"]_vars

\* C2 witness: an unlock firing is at its SetActive(False) call, a device is
\* flagged present, the screen is locked and the flag is set
C2_Witness ==
    /\ ~NoneFlaggedPresent
    /\ screen # "unlocked"
    /\ screen_locked_by_script
    /\ \E t \in BagToSet(threads) : At(t, "unlock", "setactive")

\* C3 as claimed: SetActive(False) is never called on a lock that the user engaged.
C3_AsClaimed ==
    [][\A t \in BagToSet(threads) :
          (At(t, "unlock", "setactive") /\ Moved(t, "clear")) => screen # "user"]_vars

\* the timer stored for d in timer_dict is waiting for its interval to pass
Armed(timer_dict, d) == d \in DOMAIN timer_dict /\ timer_dict[d].st = "armed"

\* the timer stored for d in timer_dict is in state st
InState(timer_dict, d, st) == d \in DOMAIN timer_dict /\ timer_dict[d].st = st

\* the step is the observation of a reading s for the device d
Observed(d, s) == Devices[scan_idx] = d /\ Observe(s)

\* the handler has started the lock timer of d and is about to record d as away
AwayPending(d) == main_pc = "set_away" /\ Devices[scan_idx] = d

\* C4: the lock timer of a device D is started, with the full lock_timeout to
\* wait, only by the handling of a reading of D below lock_distance that
\* changes D's flag; its wait only runs down with the clock and it fires only
\* when the whole of it has run down; all the while it waits D is flagged absent
\* (from the flag write that follows the timer call on); every present
\* reading of D handled while it waits cancels it, and a cancelled timer never
\* fires: it stays cancelled until a later change to absent stores a new timer
\* that waits the full lock_timeout again.
C4_LockTimerFiresAfterFullAbsence ==
    [][\A d \in DeviceNames :
          /\ (~Armed(lock_timers, d) /\ Armed(lock_timers', d))
                => /\ lock_timers'[d].rem = lock_timeout
                   /\ LastKnown(device_is_present, d)
                   /\ \E s \in Samples : s.ok /\ s.rssi < lock_distance /\ Observed(d, s)
                   /\ AwayPending(d)'
          /\ (Armed(lock_timers, d) /\ Armed(lock_timers', d))
                => lock_timers'[d].rem \in {lock_timers[d].rem,
                                            Max(0, lock_timers[d].rem - TickStep)}
          /\ (~InState(lock_timers, d, "fired") /\ InState(lock_timers', d, "fired"))
                => (Armed(lock_timers, d) /\ lock_timers[d].rem = 0)
          /\ Armed(lock_timers, d)
                => \/ d \in DOMAIN device_is_present /\ ~device_is_present[d]
                   \/ AwayPending(d)
          /\ \A s \in Samples :
                (Armed(lock_timers, d) /\ s.ok /\ s.rssi >= lock_distance /\ Observed(d, s))
                   => InState(lock_timers', d, "cancelled")
          /\ InState(lock_timers, d, "cancelled")
                => \/ InState(lock_timers', d, "cancelled")
                   \/ (Armed(lock_timers', d) /\ lock_timers'[d].rem = lock_timeout)]_vars

\* C4 witness: the lock timer of one device has fired, the device flagged absent
\* and its lock_action about to run, while the lock timer of another device,
\* which went away and came back inside its window, is cancelled
C4_Witness ==
    \E d \in DeviceNames, e \in DeviceNames :
       /\ InState(lock_timers, d, "fired")
       /\ d \in DOMAIN device_is_present /\ ~device_is_present[d]
       /\ \E t \in BagToSet(threads) : Firing(t, "lock") /\ t.dev = d /\ ~t.late
       /\ InState(lock_timers, e, "cancelled")
       /\ e \in DOMAIN device_is_present /\ device_is_present[e]

\* C5: a flag changes only in the step of line 176 and only for the device being
\* handled; the value written is the test rssi >= lock_distance of the reading
\* the handler took, so the flag changes exactly when that test differs from the
\* recorded flag, and the first reading of a device records the test's result;
\* an observation without a reading never gets to line 176; no other step and no
\* observation of another device touches the flag.
C5_FlagChangesOnlyOnDifferingSample ==
    [][/\ \A s \in Samples :
             Observe(s) =>
                /\ UNCHANGED device_is_present
                /\ main_pc' = (IF ~s.ok THEN "scan"
                               ELSE IF s.rssi >= lock_distance THEN "set_present"
                               ELSE "set_away")
       /\ proximity_update =>
             LET d == Devices[scan_idx]
                 test == (main_pc = "set_present")
             IN  /\ DOMAIN device_is_present' = DOMAIN device_is_present \cup {d}
                 /\ device_is_present'[d] = test
                 /\ d \in DOMAIN device_is_present
                       => (device_is_present'[d] # device_is_present[d]
                              <=> test # device_is_present[d])
                 /\ \A e \in DOMAIN device_is_present \ {d} :
                       device_is_present'[e] = device_is_present[e]
       /\ ~proximity_update => UNCHANGED device_is_present]_vars

\* C5 witness: the flag of a device has changed to away and back to present
C5_Witness ==
    \E d \in DOMAIN device_is_present :
       /\ device_is_present[d]
       /\ InState(lock_timers, d, "cancelled")
       /\ Armed(unlock_timers, d)

\* C6: an observation without a reading ends before line 163 and leaves every
\* flag, every lock and unlock timer, the timer threads and
\* screen_locked_by_script as they are; one whose test equals the recorded flag
\* of the device leaves them as they are in both of its steps; the first reading
\* of a device, when its test is true, starts and cancels no timer either; line
\* 176 never touches a timer.
C6_NoReadingOrSameTestChangesNothing ==
    [][/\ \A s \in Samples :
             LET d == Devices[scan_idx]
                 test == s.rssi >= lock_distance
             IN  /\ (Observe(s) /\ ~s.ok)
                       => /\ main_pc' = "scan"
                          /\ UNCHANGED <<device_is_present, lock_timers, unlock_timers, threads,
                                         screen_locked_by_script, screen>>
                 /\ (Observe(s) /\ s.ok /\ d \in DOMAIN device_is_present
                        /\ test = device_is_present[d])
                       => UNCHANGED <<device_is_present, lock_timers, unlock_timers, threads,
                                      screen_locked_by_script, screen>>
                 /\ (Observe(s) /\ s.ok /\ d \notin DOMAIN device_is_present /\ test)
                       => UNCHANGED <<lock_timers, unlock_timers, threads,
                                      screen_locked_by_script, screen>>
       /\ proximity_update
             => /\ UNCHANGED <<lock_timers, unlock_timers, threads,
                               screen_locked_by_script, screen>>
                /\ (Devices[scan_idx] \in DOMAIN device_is_present
                       /\ device_is_present[Devices[scan_idx]] = (main_pc = "set_present"))
                      => UNCHANGED device_is_present]_vars

\* C6 witness: the lock timer of the second device waits and the scan is back at
\* that device, so the first device was observed while the timer waited; the first
\* device has no flag, so that observation had no reading
C6_Witness ==
    /\ Armed(lock_timers, Devices[2])
    /\ main_pc = "scan"
    /\ passes = 1
    /\ scan_idx = 2
    /\ Devices[1] \notin DOMAIN device_is_present
    /\ Devices[1] \notin DOMAIN lock_timers

\* C7: no device has a waiting lock timer and a waiting unlock timer at once, and a
\* waiting timer is never replaced by a new one (each dict holds one timer per
\* device, so at most one timer waits per device and direction).
C7_OnePendingTimerPerDevice ==
    /\ [](\A d \in DeviceNames : ~(Armed(lock_timers, d) /\ Armed(unlock_timers, d)))
    /\ [][\A d \in DeviceNames :
             /\ (Armed(lock_timers, d) /\ Armed(lock_timers', d))
                   => lock_timers'[d].rem <= lock_timers[d].rem
             /\ (Armed(unlock_timers, d) /\ Armed(unlock_timers', d))
                   => unlock_timers'[d].rem <= unlock_timers[d].rem]_vars

\* C7 witness: an unlock timer waits for a device whose lock timer was cancelled
C7_Witness ==
    \E d \in DeviceNames : Armed(unlock_timers, d) /\ InState(lock_timers, d, "cancelled")

\* C8 as claimed: once cancel() has returned for a timer, the timer's function is
\* not entered any more.
C8_AsClaimed ==
    [][\A t \in BagToSet(threads) :
          (t.pc = "call" /\ t.late) => ~(Moved(t, "query") \/ Ended(t))]_vars

\* the step is the observation of a reading for d that changes d's flag to `cur`
ChangeTo(d, cur) ==
    /\ Devices[scan_idx] = d
    /\ LastKnown(device_is_present, d) # cur
    /\ \E s \in Samples : s.ok /\ (s.rssi >= lock_distance) = cur /\ Observe(s)

\* C9: cancel_timer on a key whose timer was never stored, has fired or is
\* cancelled changes nothing, and the start_lock_timer / start_unlock_timer that
\* follows stores a timer that waits for its full interval.
C9_CancelOfDeadTimerIsNoOp ==
    /\ [](\A d \in DeviceNames :
             /\ ~Armed(lock_timers, d) => cancel_timer(lock_timers, d) = lock_timers
             /\ ~Armed(unlock_timers, d) => cancel_timer(unlock_timers, d) = unlock_timers)
    /\ [][\A d \in DeviceNames :
             /\ (ChangeTo(d, FALSE) /\ ~Armed(lock_timers, d))
                   => /\ lock_timers'[d] = NewTimer(lock_timeout)
                      /\ unlock_timers' = cancel_timer(unlock_timers, d)
                      /\ ~Armed(unlock_timers, d) => unlock_timers' = unlock_timers
             /\ (ChangeTo(d, TRUE) /\ ~Armed(unlock_timers, d))
                   => /\ unlock_timers'[d] = NewTimer(unlock_timeout)
                      /\ ~Armed(lock_timers, d) => lock_timers' = lock_timers]_vars

\* C9 witness: a lock timer stored over a cancelled one has fired after its
\* interval, the cancel_timer('unlock') before it having met a cancelled timer
C9_Witness ==
    \E d \in DeviceNames :
       /\ InState(lock_timers, d, "fired")
       /\ InState(unlock_timers, d, "cancelled")

\* C10 as claimed: a lock_screen that finds the screen locked makes no call and
\* changes nothing.  (Stated for the calls made while every device is flagged
\* absent.)
C10_AsClaimed ==
    [][\A t \in BagToSet(threads) :
          (AllFlaggedAbsent /\ At(t, "lock", "query") /\ screen # "unlocked"
              /\ (Moved(t, "lock") \/ Ended(t)))
             => (Ended(t) /\ FiringChangesNothing)]_vars

\* C11 as claimed: once signal_handler has cancelled the timers and returned, no
\* timer thread enters lock_action or unlock_action any more.
C11_AsClaimed ==
    [][\A t \in BagToSet(threads) :
          (main_pc = "exited" /\ t.pc = "call") => ~(Moved(t, "query") \/ Ended(t))]_vars

\* C12 as claimed: an observation that has begun when the signal arrives is
\* completed before the loop stops.
C12_AsClaimed ==
    [][main_pc = "rssi" => main_pc' # "exited"]_vars

\* C13 as claimed: when a device flagged present has no reading or a weak one,
\* its lock timer starts to wait for lock_timeout.
C13_AsClaimed ==
    [][\A d \in DOMAIN device_is_present, s \in Samples :
          (device_is_present[d] /\ Observed(d, s) /\ (~s.ok \/ s.rssi < lock_distance))
             => Armed(lock_timers', d) /\ lock_timers'[d].rem = lock_timeout]_vars

\* d is the one tracked device: the other device of CONFIG['devices'] has never
\* had a reading, so it has no flag and no timer and the handler returns at
\* line 156 for it
OnlyTracked(d) == DOMAIN device_is_present = {d}

\* C13 amended, with the clock on time: the first weak reading of a device
\* flagged present starts its lock timer with the full lock_timeout and line 176
\* records the device as away; while the timer waits, what is left of its wait
\* and the time the device has been flagged away add up to lock_timeout; the
\* timer fires when the device has been flagged away for lock_timeout, not
\* earlier and not a clock step later; the lock_action of the one tracked
\* device, no cancel() having raced with it, goes on to lock_screen, and any
\* lock_action does exactly when no flag is True.  An observation without a
\* reading starts and cancels no timer and leaves the flag as it is.
C13_LockExactlyTimeoutAfterWeakReading ==
    [][/\ \A d \in DeviceNames, s \in Samples :
             /\ (LastKnown(device_is_present, d) /\ Observed(d, s)
                    /\ s.ok /\ s.rssi < lock_distance)
                   => /\ Armed(lock_timers', d)
                      /\ lock_timers'[d].rem = lock_timeout
                      /\ main_pc' = "set_away"
             /\ (Observed(d, s) /\ ~s.ok)
                   => /\ main_pc' = "scan"
                      /\ UNCHANGED <<lock_timers, unlock_timers, threads, device_is_present>>
       /\ (proximity_update /\ main_pc = "set_away")
             => /\ ~device_is_present'[Devices[scan_idx]]
                /\ LastKnown(device_is_present, Devices[scan_idx])
                      => away_for'[Devices[scan_idx]] = 0
       /\ \A d \in DeviceNames :
             /\ (Armed(lock_timers, d) /\ ~AwayPending(d))
                   => /\ d \in DOMAIN device_is_present /\ ~device_is_present[d]
                      /\ lock_timers[d].rem = Max(0, lock_timeout - away_for[d])
             /\ (Armed(lock_timers, d) /\ InState(lock_timers', d, "fired"))
                   => /\ d \in DOMAIN device_is_present /\ ~device_is_present[d]
                      /\ away_for[d] >= lock_timeout
                      /\ away_for[d] < lock_timeout + TickStep
       /\ \A t \in BagToSet(threads) :
             /\ (Firing(t, "lock") /\ ~t.late /\ OnlyTracked(t.dev)
                    /\ (Moved(t, "query") \/ Ended(t)))
                   => Moved(t, "query")
             /\ (Firing(t, "lock") /\ (Moved(t, "query") \/ Ended(t)))
                   => (Moved(t, "query") <=> \A d \in DOMAIN device_is_present :
                                                ~device_is_present[d])]_vars

\* C13 witness: the one tracked device was flagged present for so long that its
\* unlock timer fired, and has now been flagged away for exactly lock_timeout;
\* its lock timer has fired and its lock_action, past the is-locked query, is
\* about to call Lock
C13_Witness ==
    \E d \in DeviceNames :
       /\ OnlyTracked(d)
       /\ ~device_is_present[d]
       /\ away_for[d] = lock_timeout
       /\ InState(lock_timers, d, "fired")
       /\ InState(unlock_timers, d, "fired")
       /\ screen = "unlocked"
       /\ \E t \in BagToSet(threads) : At(t, "lock", "lock")

\* the mapping is empty or holds placeholder addresses only
NothingConfigured ==
    \A d \in DOMAIN config_devices :
       config_devices[d] = "XX:XX:XX:XX:XX:XX" \/ config_devices[d] = "YY:YY:YY:YY:YY:YY"

\* C14: with an empty or placeholder-only device mapping run() returns before the
\* loop: the main thread goes from start to returned and stays there, no flag is
\* ever recorded, no timer stored, no timer thread started, the screen untouched;
\* with any other mapping run() enters the loop.
C14_InvalidConfigurationNeverScans ==
    /\ [](NothingConfigured
            => /\ main_pc \in {"start", "returned"}
               /\ device_is_present = EmptyDict
               /\ DOMAIN lock_timers = {} /\ DOMAIN unlock_timers = {}
               /\ threads = EmptyBag
               /\ screen = "unlocked" /\ ~screen_locked_by_script)
    /\ [](~NothingConfigured => main_pc \in {"start", "scan", "set_present", "set_away"})
    /\ [][/\ main_pc = "returned" => main_pc' = "returned"
          /\ (main_pc = "start" /\ main_pc' # "start")
                => main_pc' = (IF NothingConfigured THEN "returned" ELSE "scan")]_vars

\* C14 witness: run() has returned on a mapping of two placeholder addresses
C14_Witness ==
    /\ main_pc = "returned"
    /\ DOMAIN config_devices = DeviceNames
    /\ NothingConfigured

\* C15 as claimed: a lock_screen whose is-locked query fails is skipped.  (Stated
\* for the calls made while every device is flagged absent.)
C15_AsClaimed ==
    [][\A t \in BagToSet(threads) :
          (AllFlaggedAbsent /\ LockQuery(t, FALSE)) => Ended(t)]_vars

\* the step is main's loop waking from its sleep (PeriodicCheck): it goes on to
\* the GetActive call of line 108 or back to sleep
Checked ==
    /\ main_at = "sleep" /\ callback_at = "idle" /\ sleep_left = 0
    /\ callback_at' = "idle"
    /\ main_at' = "check" \/ (main_at' = "sleep" /\ sleep_left' # 0)

\* C16 as claimed: a periodic check made when, for longer than AWAY_TIMEOUT, every
\* advertisement received was below LOCK_THRESHOLD, and the screen is not locked,
\* goes on to lock the screen (to the GetActive call of line 108, then lock_screen).
\* (Stated for the checks made within a clock step of the last advertisement:
\* its callback was not held up by the bus.)
C16_AsClaimed ==
    [][(Checked /\ weak_for > AWAY_TIMEOUT /\ time_since_seen <= TickStep
           /\ ~is_locked /\ screen = "unlocked")
          => main_at' = "check"]_vars

\* C17 as claimed: a periodic check made when the device has not been seen for
\* longer than AWAY_TIMEOUT, and the screen saver is not active, goes on to lock
\* the screen (to the GetActive call of line 108, then lock_screen).
C17_AsClaimed ==
    [][(Checked /\ time_since_seen > AWAY_TIMEOUT /\ screen = "unlocked")
          => main_at' = "check"]_vars

\* C17, the part that holds: the loop goes on to the GetActive call of line 108,
\* and from there to lock_screen and its Lock call, only from a check that found
\* time_since_seen > AWAY_TIMEOUT; is_locked becomes True only with that Lock call.
C17_LockOnlyWhenAway ==
    [][/\ (main_at # "check" /\ main_at' = "check")
             => (Checked /\ IsAway(time_since_seen, age_over) /\ ~is_locked)
       /\ (main_at # "lock_query" /\ main_at' = "lock_query") => main_at = "check"
       /\ (main_at # "lock_call" /\ main_at' = "lock_call") => main_at = "lock_query"
       /\ (~is_locked /\ is_locked') => main_at = "lock_call"]_vars

\* handle_device_proximity has made its timer calls for a change of the flag of d
\* and has not yet written the flag
FlipPending(d) ==
    /\ main_pc \in {"set_present", "set_away"}
    /\ Devices[scan_idx] = d
    /\ (main_pc = "set_present") # LastKnown(device_is_present, d)

\* C18 as claimed: the firing of a timer of a device never runs between the timer
\* calls and the flag flip of handle_device_proximity for that device.  (Stated
\* for the firings that were under way when the handler made its timer calls.)
C18_AsClaimed ==
    [][\A t \in BagToSet(threads) :
          (t.pc = "call" /\ t.late /\ FlipPending(t.dev))
             => ~(Moved(t, "query") \/ Ended(t))]_vars

\* C19 as claimed: the unlock_action of a timer started for the device D goes on
\* to unlock_screen only if D is flagged present when the action runs.  (Stated
\* for the actions run while the main thread is not inside
\* handle_device_proximity.)
C19_AsClaimed ==
    [][\A t \in BagToSet(threads) :
          (main_pc = "scan" /\ Firing(t, "unlock") /\ Moved(t, "query"))
             => (t.dev \in DOMAIN device_is_present /\ device_is_present[t.dev])]_vars

\* C20 for the handler of custom-blueproximity.py, whose default is the current
\* sample (line 139): under SpecCustom the first observation of the device,
\* with a strong reading, a weak one or none, starts no timer and cancels none.
C20_CustomFirstReadingIsNoChange ==
    [][\A s \in CustomSamples :
          (CustomDevices[1] \notin DOMAIN device_is_present /\ custom_Observe(s))
             => UNCHANGED <<lock_timers, unlock_timers, threads>>]_vars

\* C20 as claimed: the first reading of a device starts no timer and cancels none.
C20_AsClaimed ==
    [][\A d \in DeviceNames, s \in Samples :
          (d \notin DOMAIN device_is_present /\ Observed(d, s))
             => UNCHANGED <<lock_timers, unlock_timers>>]_vars

\* C21 as claimed: a lock_action goes on to lock_screen only when every device of
\* CONFIG['devices'] has been flagged absent for at least lock_timeout.  (Stated
\* for the firings no cancel() has raced with, made while every device is
\* flagged absent and the device of the timer has been for lock_timeout.)
C21_AsClaimed ==
    [][\A t \in BagToSet(threads) :
          (Firing(t, "lock") /\ ~t.late /\ AllFlaggedAbsent
              /\ away_for[t.dev] >= lock_timeout /\ Moved(t, "query"))
             => \A d \in DeviceNames : away_for[d] >= lock_timeout]_vars

\* C22 as claimed: if from some point on every device of CONFIG['devices'] stays
\* flagged absent, the screen does not stay unlocked: whenever it is unlocked (by
\* the user too), a lock follows.
C22_AsClaimed ==
    <>[]AllFlaggedAbsent => []<>(screen # "unlocked")

\* d has a flag and it is True
FlaggedPresent(d) == d \in DOMAIN device_is_present /\ device_is_present[d]

\* no unlock timer waits and no unlock_action is under way
NoUnlockPending ==
    /\ \A e \in DOMAIN unlock_timers : unlock_timers[e].st # "armed"
    /\ \A t \in BagToSet(threads) : t.kind # "unlock"

\* C23 as claimed: once the screen is locked by lock_screen's Lock call while a
\* device is flagged absent (and nothing of an earlier unlock is pending), the
\* lock does not stay for ever with that device flagged present from some point
\* on: the unlock call is made.
C23_AsClaimed ==
    \A d \in DeviceNames :
       []((screen = "script" /\ NoUnlockPending
              /\ d \in DOMAIN device_is_present /\ ~device_is_present[d])
             => ~([](screen = "script") /\ <>[]FlaggedPresent(d)))

====
